---- MODULE Spec2Model ----
(***************************************************************************)
(* Model of fake_wechat_version.py: the chunked memory scanner             *)
(* (scan_for_offsets), the validating patcher and orchestration            *)
(* (fake_version, called from __main__) and the version codec              *)
(* (convert_version_to_hex); the launch polling loop and the version       *)
(* update of its __main__ and update_config_file; and, from                *)
(* get_wx_version_script.py, the version update and                        *)
(* GiteeRepository.commit_and_push.                                        *)
(*                                                                         *)
(* Process memory is a function from addresses to cells; a cell holds a    *)
(* byte (0..255) or is unmapped.  Strings are sequences of one-character   *)
(* strings, so that split, endswith, zfill and int(.., 16) are computed.   *)
(***************************************************************************)
EXTENDS Integers, Sequences, FiniteSets, TLC

VARIABLES
    mem,                  \* process memory: address -> byte or Unmapped
    modules,              \* wx.list_modules(): sequence of [filename, lpBaseOfDll]
    current_version,      \* fake_version argument: hex string
    target_version,       \* fake_version argument: dotted version string
    pc,                   \* position in fake_version / scan_for_offsets
    dll_base,             \* fake_version local
    default_hex,          \* fake_version local
    target_hex,           \* fake_version local
    base_address,         \* scan_for_offsets parameter
    hex_value,            \* scan_for_offsets parameter
    total_size,           \* scan_for_offsets parameter
    chunk_size,           \* scan_for_offsets parameter
    chunk_start,          \* scan_for_offsets loop variable
    previous_chunk_tail,  \* scan_for_offsets local
    offsets,              \* scan_for_offsets local, then fake_version local
    idx,                  \* position of the patch loop in offsets (1-based)
    err,                  \* exception that ended the run, "" if none
    ret,                  \* what fake_version returned: <<>> is None, <<v>> a value v
    calls,                \* calls made on wx so far (read_bytes/read_uint/write_uint)
    mutations,            \* writes the target process itself made while being patched
    num,                  \* __main__ local: remaining polls, counted in steps of 0.5
    launch_pc,            \* position in the launch polling loop of __main__
    output,               \* __main__ local: what the last tasklist query found
    wx_window,            \* __main__ local: result of window_control
    current,              \* __main__ local: the configured current version
    encoded,              \* outcomes of the convert_version_to_hex(current) calls so far
    local_version,        \* the version stored in the config
    remote_version,       \* the version fetched from the remote side
    result,               \* update_config_file local / script variable
    update_pc,            \* position in the version update
    git,                  \* the repository as commit_and_push finds it
    git_pc,               \* position in commit_and_push
    git_ops,              \* git commands run so far
    git_ret               \* returns of commit, push and commit_and_push

\* the state outside fake_version and scan_for_offsets
launchVars == <<num, launch_pc, output, wx_window>>
codecVars == <<current, encoded>>
updateVars == <<local_version, remote_version, result, update_pc>>
gitVars == <<git, git_pc, git_ops, git_ret>>
extVars == <<mutations, launchVars, codecVars, updateVars, gitVars>>

vars == <<mem, modules, current_version, target_version, pc, dll_base,
          default_hex, target_hex, base_address, hex_value, total_size,
          chunk_size, chunk_start, previous_chunk_tail, offsets, idx, err,
          ret, calls, extVars>>

\* the patcher's variables
patchVars == <<mem, modules, current_version, target_version, pc, dll_base,
               default_hex, target_hex, base_address, hex_value, total_size,
               chunk_size, chunk_start, previous_chunk_tail, offsets, idx,
               err, ret, calls>>

scanVars == <<base_address, hex_value, total_size, chunk_size, chunk_start,
              previous_chunk_tail, offsets>>

-----------------------------------------------------------------------------
(* Bounds of the model *)

\* number of addresses of the modelled address space (0 .. MemSize-1)
MemSize == 14
\* at most this many cells of the initial memory are unmapped or differ from
\* the fill byte
MaxSpecial == 3
\* number of addresses of the memory a direct scan_for_offsets call runs on
ScanMemSize == 9
\* scan_for_offsets' default total_size, scaled down from 0x10000000
DefaultTotalSize == 13
\* scan_for_offsets' default chunk_size, scaled down from 0x1000000
DefaultChunkSize == 4
\* largest chunk_size of a direct scan_for_offsets call
MaxChunkSize == 4

-----------------------------------------------------------------------------
(* Strings *)

Unmapped == -1

HexChars == <<"0", "1", "2", "3", "4", "5", "6", "7", "8", "9",
              "a", "b", "c", "d", "e", "f">>

DecChars == <<"0", "1", "2", "3", "4", "5", "6", "7", "8", "9">>

\* value of a digit character in the given table, -1 if it is none
DigitVal(table, c) ==
    IF \E i \in 1..Len(table) : table[i] = c
    THEN (CHOOSE i \in 1..Len(table) : table[i] = c) - 1
    ELSE -1

\* whether int(s, base) parses (plain digit strings only)
IsNumeral(table, s) ==
    /\ Len(s) > 0
    /\ \A i \in 1..Len(s) : DigitVal(table, s[i]) >= 0

RECURSIVE ParseNumeral(_, _)
\* int(s, base) of a digit string
ParseNumeral(table, s) ==
    IF Len(s) = 0 THEN 0
    ELSE ParseNumeral(table, SubSeq(s, 1, Len(s) - 1)) * Len(table)
         + DigitVal(table, s[Len(s)])

RECURSIVE HexFormat(_)
\* f"{n:x}"
HexFormat(n) ==
    IF n < 16 THEN <<HexChars[n + 1]>>
    ELSE HexFormat(n \div 16) \o <<HexChars[(n % 16) + 1]>>

\* mutant: no padding, every component keeps its shortest hex form
zfill_none(s, width) == s

RECURSIVE zfill(_, _)
\* str.zfill(width)
zfill(s, width) ==
    IF Len(s) >= width THEN s ELSE zfill(<<"0">> \o s, width)

RECURSIVE split(_, _)
\* str.split(sep) for a one-character separator
split(s, sep) ==
    IF \A i \in 1..Len(s) : s[i] # sep THEN <<s>>
    ELSE LET k == CHOOSE i \in 1..Len(s) :
                     /\ s[i] = sep
                     /\ \A j \in 1..(i - 1) : s[j] # sep
         IN  <<SubSeq(s, 1, k - 1)>> \o split(SubSeq(s, k + 1, Len(s)), sep)

\* str.endswith(suffix)
endswith(s, suffix) ==
    /\ Len(s) >= Len(suffix)
    /\ SubSeq(s, Len(s) - Len(suffix) + 1, Len(s)) = suffix

RECURSIVE Concat(_)
\* "".join(seq)
Concat(ss) ==
    IF Len(ss) = 0 THEN <<>> ELSE Head(ss) \o Concat(Tail(ss))

-----------------------------------------------------------------------------
(* Version codec *)

\* whether convert_version_to_hex returns (int(part) raises ValueError otherwise)
convert_version_ok(version) ==
    \A i \in 1..Len(split(version, ".")) :
        IsNumeral(DecChars, split(version, ".")[i])

\* convert_version_to_hex: "6" + hex of each part, zero-filled to 1 / 2 digits
convert_version_to_hex(version) ==
    LET parts == split(version, ".")
    IN  <<"6">> \o Concat([i \in 1..Len(parts) |->
              zfill(HexFormat(ParseNumeral(DecChars, parts[i])),
                    IF i = 1 THEN 1 ELSE 2)])

-----------------------------------------------------------------------------
(* Process memory primitives (pymem) *)

\* int.to_bytes(4, byteorder="little")
to_bytes(v) ==
    <<v % 256, (v \div 256) % 256, (v \div 65536) % 256, (v \div 16777216) % 256>>

\* little-endian value of 4 bytes
from_bytes(b) ==
    b[1] + 256 * b[2] + 65536 * b[3] + 16777216 * b[4]

\* whether length bytes from address can be read
Readable(m, address, length) ==
    \A a \in address..(address + length - 1) :
        a \in DOMAIN m /\ m[a] # Unmapped

\* wx.read_bytes(address, length)
read_bytes(m, address, length) ==
    [i \in 1..length |-> m[address + i - 1]]

\* wx.read_uint(address)
read_uint(m, address) ==
    from_bytes(read_bytes(m, address, 4))

\* memory after wx.write_uint(address, value)
write_uint(m, address, value) ==
    [a \in DOMAIN m |->
        IF a \in address..(address + 3) THEN to_bytes(value)[a - address + 1]
        ELSE m[a]]

Call(op, address, arg, ok) ==
    [op |-> op, addr |-> address, arg |-> arg, ok |-> ok]

-----------------------------------------------------------------------------
(* scan_for_offsets *)

\* mutant: one byte more is kept, memory[-(overlap_size + 1):]
tail_of_long(memory, overlap_size) ==
    IF Len(memory) <= overlap_size + 1 THEN memory
    ELSE SubSeq(memory, Len(memory) - overlap_size, Len(memory))

\* mutant: one byte fewer is kept, memory[-(overlap_size - 1):]
tail_of_short(memory, overlap_size) ==
    IF Len(memory) <= overlap_size - 1 THEN memory
    ELSE SubSeq(memory, Len(memory) - overlap_size + 2, Len(memory))

\* memory[-overlap_size:]
tail_of(memory, overlap_size) ==
    IF Len(memory) <= overlap_size THEN memory
    ELSE SubSeq(memory, Len(memory) - overlap_size + 1, Len(memory))

\* mutant: the prepended tail is not subtracted from the match index
find_offsets_unshifted(memory, hex_bytes, start, tail_len) ==
    LET n    == Len(memory) - Len(hex_bytes) + 1
        is   == [k \in 1..(IF n > 0 THEN n ELSE 0) |-> k - 1]
        hits == SelectSeq(is, LAMBDA i :
                    SubSeq(memory, i + 1, i + Len(hex_bytes)) = hex_bytes)
    IN  [k \in 1..Len(hits) |-> start + hits[k]]

\* the offsets one window appends: every i in range(len(memory) - len(hex_bytes) + 1)
\* with memory[i:i+len(hex_bytes)] == hex_bytes, as chunk_start + i - len(tail)
find_offsets(memory, hex_bytes, start, tail_len) ==
    LET n    == Len(memory) - Len(hex_bytes) + 1
        is   == [k \in 1..(IF n > 0 THEN n ELSE 0) |-> k - 1]
        hits == SelectSeq(is, LAMBDA i :
                    SubSeq(memory, i + 1, i + Len(hex_bytes)) = hex_bytes)
    IN  [k \in 1..Len(hits) |-> start + hits[k] - tail_len]

\* mutant: the last window is not shortened to what is left of the range
full_chunk_size == chunk_size

\* min(chunk_size, total_size - chunk_start)
current_chunk_size ==
    IF chunk_size <= total_size - chunk_start THEN chunk_size
    ELSE total_size - chunk_start

current_address == base_address + chunk_start

\* loop body, read succeeded (lines 44-47, 51-57)
ScanWindowRead ==
    /\ UNCHANGED extVars
    /\ pc = "scan"
    /\ chunk_start < total_size
    /\ Readable(mem, current_address, current_chunk_size)
    /\ LET hex_bytes    == to_bytes(hex_value)
           overlap_size == Len(hex_bytes) - 1
           tail         == previous_chunk_tail
           memory       == tail \o read_bytes(mem, current_address, current_chunk_size)
       IN  /\ offsets' = offsets \o find_offsets(memory, hex_bytes, chunk_start, Len(tail))
           /\ previous_chunk_tail' = tail_of(memory, overlap_size)
    /\ chunk_start' = chunk_start + chunk_size
    /\ calls' = Append(calls, Call("read_bytes", current_address, current_chunk_size, TRUE))
    /\ UNCHANGED <<mem, modules, current_version, target_version, pc, dll_base,
                   default_hex, target_hex, base_address, hex_value, total_size,
                   chunk_size, idx, err, ret>>

\* the tail left behind by a window whose read failed
tail_after_failed_read(tail) == tail

\* mutant: MemoryReadError ends the loop (break instead of continue)
ScanWindowAbort ==
    /\ UNCHANGED extVars
    /\ pc = "scan"
    /\ chunk_start < total_size
    /\ ~Readable(mem, current_address, current_chunk_size)
    /\ chunk_start' = total_size
    /\ previous_chunk_tail' = previous_chunk_tail
    /\ calls' = Append(calls, Call("read_bytes", current_address, current_chunk_size, FALSE))
    /\ UNCHANGED <<mem, modules, current_version, target_version, pc, dll_base,
                   default_hex, target_hex, base_address, hex_value, total_size,
                   chunk_size, offsets, idx, err, ret>>

\* loop body, read raised MemoryReadError (lines 44-49)
ScanWindowSkip ==
    /\ UNCHANGED extVars
    /\ pc = "scan"
    /\ chunk_start < total_size
    /\ ~Readable(mem, current_address, current_chunk_size)
    /\ chunk_start' = chunk_start + chunk_size
    /\ previous_chunk_tail' = tail_after_failed_read(previous_chunk_tail)
    /\ calls' = Append(calls, Call("read_bytes", current_address, current_chunk_size, FALSE))
    /\ UNCHANGED <<mem, modules, current_version, target_version, pc, dll_base,
                   default_hex, target_hex, base_address, hex_value, total_size,
                   chunk_size, offsets, idx, err, ret>>

\* range(0, total_size, chunk_size) is exhausted: return offsets (line 59)
ScanReturn ==
    /\ UNCHANGED extVars
    /\ pc = "scan"
    /\ chunk_start >= total_size
    /\ pc' = "scanned"
    /\ UNCHANGED <<mem, modules, current_version, target_version, dll_base,
                   default_hex, target_hex, scanVars, idx, err, calls, ret>>

-----------------------------------------------------------------------------
(* fake_version *)

WeChatWinDll == <<"W", "e", "C", "h", "a", "t", "W", "i", "n", ".", "d", "l", "l">>

\* the module fake_version picks: the first whose filename ends with WeChatWin.dll
matching_modules(ms) ==
    SelectSeq(ms, LAMBDA m : endswith(m.filename, WeChatWinDll))

\* mutant: the last matching module wins (no break)
find_dll_base_last(ms) ==
    IF Len(matching_modules(ms)) = 0 THEN 0
    ELSE matching_modules(ms)[Len(matching_modules(ms))].lpBaseOfDll

\* lines 84-90
find_dll_base(ms) ==
    IF Len(matching_modules(ms)) = 0 THEN 0
    ELSE Head(matching_modules(ms)).lpBaseOfDll

\* lines 84-90: module lookup
LocateModule ==
    /\ UNCHANGED extVars
    /\ pc = "locate"
    /\ dll_base' = find_dll_base(modules)
    /\ pc' = "located"
    /\ UNCHANGED <<mem, modules, current_version, target_version, default_hex,
                   target_hex, scanVars, idx, err, calls, ret>>

\* lines 94-95 and 38-41: parse current_version, enter scan_for_offsets
StartScan ==
    /\ UNCHANGED extVars
    /\ pc = "located"
    /\ default_hex' = ParseNumeral(HexChars, current_version)
    /\ base_address' = dll_base
    /\ hex_value' = default_hex'
    /\ total_size' = DefaultTotalSize
    /\ chunk_size' = DefaultChunkSize
    /\ chunk_start' = 0
    /\ previous_chunk_tail' = <<>>
    /\ offsets' = <<>>
    /\ pc' = "scan"
    /\ UNCHANGED <<mem, modules, current_version, target_version, dll_base,
                   target_hex, idx, err, calls, ret>>

\* mutant: the emptiness check is missing, the patch loop runs over no offsets
OffsetsNotChecked ==
    /\ UNCHANGED extVars
    /\ pc = "scanned"
    /\ offsets = <<>>
    /\ target_hex' = ParseNumeral(HexChars, convert_version_to_hex(target_version))
    /\ idx' = 1
    /\ pc' = "patch"
    /\ UNCHANGED <<mem, modules, current_version, target_version, dll_base,
                   default_hex, scanVars, err, calls, ret>>

\* lines 97-98: an empty scan result raises
OffsetsNotFound ==
    /\ UNCHANGED extVars
    /\ pc = "scanned"
    /\ offsets = <<>>
    /\ pc' = "error"
    /\ err' = "OffsetsNotFound"
    /\ UNCHANGED <<mem, modules, current_version, target_version, dll_base,
                   default_hex, target_hex, scanVars, idx, calls, ret>>

\* lines 97-103: offsets found, encode the target version, enter the patch loop
StartPatch ==
    /\ UNCHANGED extVars
    /\ pc = "scanned"
    /\ offsets # <<>>
    /\ IF convert_version_ok(target_version)
       THEN /\ target_hex' = ParseNumeral(HexChars, convert_version_to_hex(target_version))
            /\ idx' = 1
            /\ pc' = "patch"
            /\ err' = err
       ELSE /\ pc' = "error"
            /\ err' = "ValueError"
            /\ UNCHANGED <<target_hex, idx>>
    /\ UNCHANGED <<mem, modules, current_version, target_version, dll_base,
                   default_hex, scanVars, calls, ret>>

addr == dll_base + offsets[idx]

\* mutant: the default value is tested first, so an address is rewritten
\* when default and target are the same value
classify_default_first(v) ==
    IF v = default_hex THEN "write"
    ELSE IF v = target_hex THEN "skip"
    ELSE "mismatch"

\* mutant: a value that is neither default nor target is overwritten as well
classify_no_mismatch(v) ==
    IF v = target_hex THEN "skip" ELSE "write"

\* what the patch loop does with the value v read at a candidate address
classify(v) ==
    IF v = target_hex THEN "skip"
    ELSE IF v # default_hex THEN "mismatch"
    ELSE "write"

\* line 105 raises MemoryReadError
PatchReadError ==
    /\ UNCHANGED extVars
    /\ pc = "patch"
    /\ idx <= Len(offsets)
    /\ ~Readable(mem, addr, 4)
    /\ calls' = Append(calls, Call("read_uint", addr, 0, FALSE))
    /\ pc' = "error"
    /\ err' = "MemoryReadError"
    /\ UNCHANGED <<mem, modules, current_version, target_version, dll_base,
                   default_hex, target_hex, scanVars, idx, ret>>

\* lines 104-107: the address already holds the target value
PatchSkip ==
    /\ UNCHANGED extVars
    /\ pc = "patch"
    /\ idx <= Len(offsets)
    /\ Readable(mem, addr, 4)
    /\ classify(read_uint(mem, addr)) = "skip"
    /\ calls' = Append(calls, Call("read_uint", addr, read_uint(mem, addr), TRUE))
    /\ idx' = idx + 1
    /\ UNCHANGED <<mem, modules, current_version, target_version, pc, dll_base,
                   default_hex, target_hex, scanVars, err, ret>>

\* mutant: the mismatch is reported but the loop goes on with the next offset
PatchMismatchContinue ==
    /\ UNCHANGED extVars
    /\ pc = "patch"
    /\ idx <= Len(offsets)
    /\ Readable(mem, addr, 4)
    /\ classify(read_uint(mem, addr)) = "mismatch"
    /\ calls' = Append(calls, Call("read_uint", addr, read_uint(mem, addr), TRUE))
    /\ idx' = idx + 1
    /\ err' = "VersionMismatch"
    /\ UNCHANGED <<mem, modules, current_version, target_version, pc, dll_base,
                   default_hex, target_hex, scanVars, ret>>

\* lines 104-109: the address holds neither value
PatchMismatch ==
    /\ UNCHANGED extVars
    /\ pc = "patch"
    /\ idx <= Len(offsets)
    /\ Readable(mem, addr, 4)
    /\ classify(read_uint(mem, addr)) = "mismatch"
    /\ calls' = Append(calls, Call("read_uint", addr, read_uint(mem, addr), TRUE))
    /\ pc' = "error"
    /\ err' = "VersionMismatch"
    /\ UNCHANGED <<mem, modules, current_version, target_version, dll_base,
                   default_hex, target_hex, scanVars, idx, ret>>

\* the value line 111 writes
written_value == target_hex

\* lines 104-111: the address holds the default value and is patched
PatchWrite ==
    /\ UNCHANGED extVars
    /\ pc = "patch"
    /\ idx <= Len(offsets)
    /\ Readable(mem, addr, 4)
    /\ classify(read_uint(mem, addr)) = "write"
    /\ calls' = calls \o <<Call("read_uint", addr, read_uint(mem, addr), TRUE),
                           Call("write_uint", addr, written_value, TRUE)>>
    /\ mem' = write_uint(mem, addr, written_value)
    /\ idx' = idx + 1
    /\ UNCHANGED <<modules, current_version, target_version, pc, dll_base,
                   default_hex, target_hex, scanVars, err, ret>>

\* lines 113-116: the loop is exhausted, fake_version returns (None)
PatchDone ==
    /\ UNCHANGED extVars
    /\ pc = "patch"
    /\ idx > Len(offsets)
    /\ pc' = "done"
    /\ ret' = <<>>
    /\ UNCHANGED <<mem, modules, current_version, target_version, dll_base,
                   default_hex, target_hex, scanVars, idx, err, calls>>

-----------------------------------------------------------------------------
(* The parts of the program that are not running *)

\* the launch polling loop has not been entered
LaunchIdle ==
    /\ num = 0
    /\ launch_pc = "idle"
    /\ output = ""
    /\ wx_window = "unset"

\* convert_version_to_hex(current) has not been called
CodecIdle ==
    /\ current = <<>>
    /\ encoded = <<>>

\* no version update is running
UpdateIdle ==
    /\ local_version = <<>>
    /\ remote_version = <<>>
    /\ result = <<>>
    /\ update_pc = "idle"

\* commit_and_push has not been called
GitIdle ==
    /\ git = <<>>
    /\ git_pc = "idle"
    /\ git_ops = <<>>
    /\ git_ret = <<>>

\* nothing but fake_version / scan_for_offsets runs, the target process is still
ExtIdle ==
    /\ mutations = <<>>
    /\ LaunchIdle
    /\ CodecIdle
    /\ UpdateIdle
    /\ GitIdle

\* fake_version has not been called
PatchIdle ==
    /\ mem = <<>>
    /\ modules = <<>>
    /\ current_version = <<>>
    /\ target_version = <<>>
    /\ pc = "idle"
    /\ dll_base = 0
    /\ default_hex = 0
    /\ target_hex = 0
    /\ base_address = 0
    /\ hex_value = 0
    /\ total_size = 0
    /\ chunk_size = 0
    /\ chunk_start = 0
    /\ previous_chunk_tail = <<>>
    /\ offsets = <<>>
    /\ idx = 0
    /\ err = ""
    /\ ret = <<>>
    /\ calls = <<>>

-----------------------------------------------------------------------------
(* Inputs *)

\* mapped cells hold 0x63, except a few that hold 0x00
Bytes == [fill |-> 99, other |-> 0]

\* the memories over the addresses A in which at most MaxSpecial cells are
\* unmapped or hold the other byte
Memories(A) ==
    LET Few == {S \in SUBSET A : Cardinality(S) <= MaxSpecial}
    IN  UNION {{[a \in A |-> IF a \in U THEN Unmapped
                             ELSE IF a \in S THEN Bytes.other ELSE Bytes.fill] :
                   U \in SUBSET S} : S \in Few}

\* current_version as __main__ passes it: 8 hex digits
CurrentVersions == {<<"6", "3", "6", "3", "6", "3", "6", "3">>,
                    <<"6", "3", "0", "0", "6", "3", "0", "0">>}

\* target_version: 3.99.99.0, 3.99.99.99, 3.99.0.0
TargetVersions == {<<"3", ".", "9", "9", ".", "9", "9", ".", "0">>,
                   <<"3", ".", "9", "9", ".", "9", "9", ".", "9", "9">>,
                   <<"3", ".", "9", "9", ".", "0", ".", "0">>}

Module(filename, base) == [filename |-> filename, lpBaseOfDll |-> base]

WeChatExe == <<"W", "e", "C", "h", "a", "t", ".", "e", "x", "e">>
DllPath == <<"C", ":", "\\", "W", "e", "C", "h", "a", "t", "W", "i", "n", ".", "d", "l", "l">>
LowerDllPath == <<"w", "e", "c", "h", "a", "t", "w", "i", "n", ".", "d", "l", "l">>

ModuleLists ==
    {<<Module(WeChatExe, 2)>>,
     <<Module(WeChatExe, 2), Module(DllPath, 1)>>,
     <<Module(LowerDllPath, 2), Module(DllPath, 1), Module(WeChatWinDll, 2)>>}

Init ==
    /\ mem \in Memories(0..(MemSize - 1))
    /\ modules \in ModuleLists
    /\ current_version \in CurrentVersions
    /\ target_version \in TargetVersions
    /\ pc = "locate"
    /\ dll_base = 0
    /\ default_hex = 0
    /\ target_hex = 0
    /\ base_address = 0
    /\ hex_value = 0
    /\ total_size = 0
    /\ chunk_size = 0
    /\ chunk_start = 0
    /\ previous_chunk_tail = <<>>
    /\ offsets = <<>>
    /\ idx = 0
    /\ err = ""
    /\ ret = <<>>
    /\ calls = <<>>
    /\ ExtIdle

Next ==
    \/ LocateModule
    \/ StartScan
    \/ ScanWindowRead
    \/ ScanWindowSkip
    \/ ScanReturn
    \/ OffsetsNotFound
    \/ StartPatch
    \/ PatchReadError
    \/ PatchSkip
    \/ PatchMismatch
    \/ PatchWrite
    \/ PatchDone

Spec == Init /\ [][Next]_vars

\* a direct call scan_for_offsets(wx, base_address, hex_value, total_size, chunk_size)
InitScan ==
    /\ mem \in Memories(1..ScanMemSize)
    /\ modules = <<>>
    /\ current_version = <<>>
    /\ target_version = <<>>
    /\ pc = "scan"
    /\ dll_base = 0
    /\ default_hex = 0
    /\ target_hex = 0
    /\ base_address = 1
    /\ hex_value \in {ParseNumeral(HexChars, v) : v \in CurrentVersions}
    /\ total_size \in 1..ScanMemSize
    /\ chunk_size \in 1..MaxChunkSize
    /\ chunk_start = 0
    /\ previous_chunk_tail = <<>>
    /\ offsets = <<>>
    /\ idx = 0
    /\ err = ""
    /\ ret = <<>>
    /\ calls = <<>>
    /\ ExtIdle

NextScan ==
    \/ ScanWindowRead
    \/ ScanWindowSkip
    \/ ScanReturn

SpecScan == InitScan /\ [][NextScan]_vars

-----------------------------------------------------------------------------
(* fake_version while the target process itself writes to its memory *)

\* most unmapped or differing cells of the memory at the start of such a call
MaxRaceSpecial == 1

\* the target process stores the byte b at address a (not a step of the
\* patcher); the model follows one such store per fake_version call
Mutate ==
    /\ pc \in {"patch", "patch_write"}
    /\ mutations = <<>>
    /\ \E a \in DOMAIN mem :
         \E b \in {Bytes.fill, Bytes.other} :
            /\ mem[a] # Unmapped
            /\ mem[a] # b
            /\ mem' = [mem EXCEPT ![a] = b]
            /\ mutations' = Append(mutations,
                    [address |-> a, value |-> b, after |-> Len(calls)])
    /\ UNCHANGED <<modules, current_version, target_version, pc, dll_base,
                   default_hex, target_hex, scanVars, idx, err, ret, calls>>
    /\ UNCHANGED <<launchVars, codecVars, updateVars, gitVars>>

\* lines 105-109: v = wx.read_uint(addr) is default_hex, neither branch is taken
PatchReadDefault ==
    /\ pc = "patch"
    /\ idx <= Len(offsets)
    /\ Readable(mem, addr, 4)
    /\ classify(read_uint(mem, addr)) = "write"
    /\ calls' = Append(calls, Call("read_uint", addr, read_uint(mem, addr), TRUE))
    /\ pc' = "patch_write"
    /\ UNCHANGED <<mem, modules, current_version, target_version, dll_base,
                   default_hex, target_hex, scanVars, idx, err, ret>>
    /\ UNCHANGED extVars

\* mutant: the write is a compare-and-swap that gives up when the cell no
\* longer holds the value that was read
PatchWriteIfUnchanged ==
    /\ pc = "patch_write"
    /\ IF read_uint(mem, addr) = default_hex
       THEN /\ calls' = Append(calls, Call("write_uint", addr, written_value, TRUE))
            /\ mem' = write_uint(mem, addr, written_value)
            /\ idx' = idx + 1
            /\ pc' = "patch"
            /\ UNCHANGED err
       ELSE /\ pc' = "error"
            /\ err' = "Exception"
            /\ UNCHANGED <<calls, mem, idx>>
    /\ UNCHANGED <<modules, current_version, target_version, dll_base,
                   default_hex, target_hex, scanVars, ret>>
    /\ UNCHANGED extVars

\* line 111: wx.write_uint(addr, target_hex), whatever the cell holds by now
PatchWriteAfterRead ==
    /\ pc = "patch_write"
    /\ calls' = Append(calls, Call("write_uint", addr, written_value, TRUE))
    /\ mem' = write_uint(mem, addr, written_value)
    /\ idx' = idx + 1
    /\ pc' = "patch"
    /\ UNCHANGED <<modules, current_version, target_version, dll_base,
                   default_hex, target_hex, scanVars, err, ret>>
    /\ UNCHANGED extVars

InitRace ==
    /\ Init
    /\ Cardinality({a \in DOMAIN mem : mem[a] # Bytes.fill}) <= MaxRaceSpecial

NextRace ==
    \/ LocateModule
    \/ StartScan
    \/ ScanWindowRead
    \/ ScanWindowSkip
    \/ ScanReturn
    \/ OffsetsNotFound
    \/ StartPatch
    \/ PatchReadError
    \/ PatchSkip
    \/ PatchMismatch
    \/ PatchReadDefault
    \/ PatchWriteAfterRead
    \/ PatchDone
    \/ Mutate

SpecRace == InitRace /\ [][NextRace]_vars

-----------------------------------------------------------------------------
(* __main__: polling for the launched process (lines 296-321) *)

\* num = 10 (line 296), counted in steps of 0.5: num -= 0.5 is num - 1 here
InitialNum == 20
\* how far below 0 the model follows num
MaxOvershoot == 20

\* line 318, "except:" without a class: it catches every exception raised in
\* the try block, SystemExit included
bare_except_catches(exc) == TRUE

\* lines 320-321: time.sleep(0.5); num -= 0.5
SleepAndCount ==
    /\ num > -MaxOvershoot
    /\ num' = num - 1

\* lines 303-305, 318-321: num <= 0, sys.exit(1) raises SystemExit inside the try
PollExhausted ==
    /\ launch_pc = "loop"
    /\ num <= 0
    /\ IF bare_except_catches("SystemExit")
       THEN /\ SleepAndCount
            /\ UNCHANGED launch_pc
       ELSE /\ launch_pc' = "exit"
            /\ UNCHANGED num
    /\ UNCHANGED <<output, wx_window>>
    /\ UNCHANGED <<patchVars, mutations, codecVars, updateVars, gitVars>>

\* lines 306-312, 320-321: the query ran, the process is not in its output
PollAbsent ==
    /\ launch_pc = "loop"
    /\ num > 0
    /\ output' = "absent"
    /\ SleepAndCount
    /\ UNCHANGED <<launch_pc, wx_window>>
    /\ UNCHANGED <<patchVars, mutations, codecVars, updateVars, gitVars>>

\* lines 306-310, 318-321: subprocess.check_output raised, output is not assigned
PollQueryFails ==
    /\ launch_pc = "loop"
    /\ num > 0
    /\ IF bare_except_catches("CalledProcessError")
       THEN /\ SleepAndCount
            /\ UNCHANGED launch_pc
       ELSE /\ launch_pc' = "crash"
            /\ UNCHANGED num
    /\ UNCHANGED <<output, wx_window>>
    /\ UNCHANGED <<patchVars, mutations, codecVars, updateVars, gitVars>>

\* lines 312-317: the process is listed, its windows are minimised, break
PollFound ==
    /\ launch_pc = "loop"
    /\ num > 0
    /\ output' = "present"
    /\ wx_window' \in {"None", "windows"}
    /\ launch_pc' = "launched"
    /\ UNCHANGED num
    /\ UNCHANGED <<patchVars, mutations, codecVars, updateVars, gitVars>>

\* lines 312-315, 318-321: the process is listed but window_control raised
PollFoundWindowFails ==
    /\ launch_pc = "loop"
    /\ num > 0
    /\ output' = "present"
    /\ IF bare_except_catches("pywintypes.error")
       THEN /\ SleepAndCount
            /\ UNCHANGED launch_pc
       ELSE /\ launch_pc' = "crash"
            /\ UNCHANGED num
    /\ UNCHANGED wx_window
    /\ UNCHANGED <<patchVars, mutations, codecVars, updateVars, gitVars>>

\* lines 293-299: install_path is set and the executable exists, it is started
InitLaunch ==
    /\ PatchIdle
    /\ mutations = <<>>
    /\ CodecIdle
    /\ UpdateIdle
    /\ GitIdle
    /\ num = InitialNum
    /\ launch_pc = "loop"
    /\ output = ""
    /\ wx_window = "unset"

NextLaunch ==
    \/ PollExhausted
    \/ PollAbsent
    \/ PollQueryFails
    \/ PollFound
    \/ PollFoundWindowFails

SpecLaunch == InitLaunch /\ [][NextLaunch]_vars

-----------------------------------------------------------------------------
(* __main__: encoding the configured version (line 253) *)

\* how many times the model encodes the same version
MaxCalls == 2

\* what one evaluation of line 253 gives: a returned value, None, or an exception
Returned(value) == [raised |-> "", value |-> <<value>>]
ReturnedNone == [raised |-> "", value |-> <<>>]
Raised(exc) == [raised |-> exc, value |-> <<>>]

\* current_hex = convert_version_to_hex(current) if current else None
encode_current(cur) ==
    IF cur = <<>> THEN ReturnedNone
    ELSE IF convert_version_ok(cur) THEN Returned(convert_version_to_hex(cur))
    ELSE Raised("ValueError")

EncodeCurrent ==
    /\ Len(encoded) < MaxCalls
    /\ encoded' = Append(encoded, encode_current(current))
    /\ UNCHANGED current
    /\ UNCHANGED <<patchVars, mutations, launchVars, updateVars, gitVars>>

RECURSIVE DecFormat(_)
\* str(n)
DecFormat(n) ==
    IF n < 10 THEN <<DecChars[n + 1]>>
    ELSE DecFormat(n \div 10) \o <<DecChars[(n % 10) + 1]>>

RECURSIVE join(_, _)
\* sep.join(parts)
join(parts, sep) ==
    IF Len(parts) = 0 THEN <<>>
    ELSE IF Len(parts) = 1 THEN parts[1]
    ELSE parts[1] \o sep \o join(Tail(parts), sep)

\* the version a.b.c.d as the config spells it
VersionString(a, b, c, d) ==
    join(<<DecFormat(a), DecFormat(b), DecFormat(c), DecFormat(d)>>, <<".">>)

\* values of the first component, one of them too large for one hex digit
MajorValues == {0, 3, 15, 16}
\* values of the other components, one of them too large for two hex digits
PartValues == {0, 9, 10, 27, 255, 256}
\* components of the versions that are not four numbers
PartStrings == {<<"3">>, <<"1", "0">>, <<"x">>, <<>>}
\* most components of a version in the config
MaxParts == 5

WellFormedVersions ==
    {VersionString(a, b, c, d) : a \in MajorValues, b, c, d \in PartValues}

OtherVersions ==
    {join(parts, <<".">>) :
        parts \in UNION {[1..n -> PartStrings] : n \in 1..MaxParts}}

InitCodec ==
    /\ PatchIdle
    /\ mutations = <<>>
    /\ LaunchIdle
    /\ UpdateIdle
    /\ GitIdle
    /\ current \in WellFormedVersions \cup OtherVersions
    /\ encoded = <<>>

NextCodec == EncodeCurrent

SpecCodec == InitCodec /\ [][NextCodec]_vars

-----------------------------------------------------------------------------
(* Version update: update_config_file and the script's update block *)

\* re.findall(r'\d', s): the digit characters of s, one string per digit
findall_digit(s) == SelectSeq(s, LAMBDA c : DigitVal(DecChars, c) >= 0)

RECURSIVE list_gt(_, _)
\* a > b for two lists of one-character strings (lexicographic, a proper
\* extension is greater)
list_gt(a, b) ==
    IF Len(a) = 0 THEN FALSE
    ELSE IF Len(b) = 0 THEN TRUE
    ELSE IF a[1] # b[1] THEN DigitVal(DecChars, a[1]) > DigitVal(DecChars, b[1])
    ELSE list_gt(Tail(a), Tail(b))

\* lines 227-232: whether the remote version replaces the local one
adopts(local, remote) ==
    /\ local # remote
    /\ list_gt(findall_digit(remote), findall_digit(local))

\* update_config_file (fake_wechat_version.py lines 211-235); an empty
\* remote_version stands for no remote config
UpdateConfigFile ==
    /\ update_pc = "start"
    /\ result' = IF remote_version # <<>> /\ adopts(local_version, remote_version)
                 THEN remote_version ELSE local_version
    /\ update_pc' = "returned"
    /\ UNCHANGED <<local_version, remote_version>>
    /\ UNCHANGED <<patchVars, mutations, launchVars, codecVars, gitVars>>

\* the update block of get_wx_version_script.py (lines 267-277)
ScriptUpdate ==
    /\ update_pc = "start"
    /\ remote_version # <<>>
    /\ result' = IF adopts(local_version, remote_version)
                 THEN remote_version ELSE local_version
    /\ update_pc' = "script_done"
    /\ UNCHANGED <<local_version, remote_version>>
    /\ UNCHANGED <<patchVars, mutations, launchVars, codecVars, gitVars>>

\* third and fourth components of the versions of the model (3.9.c.d)
UpdateParts == {1, 9, 12, 51}

UpdateVersions == {VersionString(3, 9, c, d) : c, d \in UpdateParts}

InitUpdate ==
    /\ PatchIdle
    /\ mutations = <<>>
    /\ LaunchIdle
    /\ CodecIdle
    /\ GitIdle
    /\ local_version \in UpdateVersions
    /\ remote_version \in UpdateVersions \cup {<<>>}
    /\ result = local_version
    /\ update_pc = "start"

NextUpdate ==
    \/ UpdateConfigFile
    \/ ScriptUpdate

SpecUpdate == InitUpdate /\ [][NextUpdate]_vars

-----------------------------------------------------------------------------
(* GiteeRepository.commit, push and commit_and_push (get_wx_version_script.py) *)

\* the git commands the three methods run, in the order they can run
GitCommands == {"get_repo", "add", "commit", "checkout", "push"}

\* the outcome of a method: what it returned and the commands it ran, the
\* last of which raised if the method logged an error
MethodResult(value, ops) == [value |-> value, ops |-> ops]

RECURSIVE run_commands(_, _)
\* the commands of cmds that run, in order, up to the first one that raises
run_commands(cmds, failing) ==
    IF Len(cmds) = 0 THEN <<>>
    ELSE IF cmds[1] \in failing THEN <<cmds[1]>>
    ELSE <<cmds[1]>> \o run_commands(Tail(cmds), failing)

\* whether one of the commands raised
raises(cmds, failing) == \E i \in 1..Len(cmds) : cmds[i] \in failing

\* commit (lines 115-143): add the files, commit if the repository is dirty
commit(g) ==
    LET cmds == IF g.dirty THEN <<"get_repo", "add", "commit">>
                ELSE <<"get_repo", "add">>
    IN  IF raises(cmds, g.failing)
        THEN MethodResult(FALSE, run_commands(cmds, g.failing) \o <<"logger.error">>)
        ELSE MethodResult(g.dirty, cmds)

\* push (lines 145-164): check the branch out and push it
push(g) ==
    LET cmds == <<"checkout", "push">>
    IN  IF raises(cmds, g.failing)
        THEN MethodResult(FALSE, run_commands(cmds, g.failing) \o <<"logger.error">>)
        ELSE MethodResult(TRUE, cmds)

\* line 174: self.commit(message, files)
GitCommit ==
    /\ git_pc = "start"
    /\ git_ops' = git_ops \o commit(git).ops
    /\ git_ret' = [git_ret EXCEPT !.commit = <<commit(git).value>>]
    /\ git_pc' = "committed"
    /\ UNCHANGED git
    /\ UNCHANGED <<patchVars, mutations, launchVars, codecVars, updateVars>>

\* lines 174-175: commit returned True, return self.push()
GitPush ==
    /\ git_pc = "committed"
    /\ git_ret.commit = <<TRUE>>
    /\ git_ops' = git_ops \o push(git).ops
    /\ git_ret' = [git_ret EXCEPT !.push = <<push(git).value>>,
                                  !.commit_and_push = <<push(git).value>>]
    /\ git_pc' = "returned"
    /\ UNCHANGED git
    /\ UNCHANGED <<patchVars, mutations, launchVars, codecVars, updateVars>>

\* line 176: commit returned False, return True
GitNothingToPush ==
    /\ git_pc = "committed"
    /\ git_ret.commit = <<FALSE>>
    /\ git_ret' = [git_ret EXCEPT !.commit_and_push = <<TRUE>>]
    /\ git_pc' = "returned"
    /\ UNCHANGED <<git, git_ops>>
    /\ UNCHANGED <<patchVars, mutations, launchVars, codecVars, updateVars>>

\* the repository and the git commands that will raise when run
GitStates ==
    [dirty : BOOLEAN, failing : SUBSET GitCommands]

InitGit ==
    /\ PatchIdle
    /\ mutations = <<>>
    /\ LaunchIdle
    /\ CodecIdle
    /\ UpdateIdle
    /\ git \in GitStates
    /\ git_pc = "start"
    /\ git_ops = <<>>
    /\ git_ret = [commit |-> <<>>, push |-> <<>>, commit_and_push |-> <<>>]

NextGit ==
    \/ GitCommit
    \/ GitPush
    \/ GitNothingToPush

SpecGit == InitGit /\ [][NextGit]_vars

-----------------------------------------------------------------------------
(* Vocabulary of the properties *)

\* the windows of range(0, total_size, chunk_size), numbered from 0
NumWindows == (total_size + chunk_size - 1) \div chunk_size

WindowStart(k) == k * chunk_size

WindowLen(k) ==
    IF chunk_size <= total_size - WindowStart(k) THEN chunk_size
    ELSE total_size - WindowStart(k)

WindowEnd(k) == WindowStart(k) + WindowLen(k) - 1

WindowReadable(k) == Readable(mem, base_address + WindowStart(k), WindowLen(k))

\* the relative offsets at which the 4 needle bytes are in memory
Occurrences ==
    {o \in 0..(total_size - 4) :
        /\ Readable(mem, base_address + o, 4)
        /\ read_bytes(mem, base_address + o, 4) = to_bytes(hex_value)}

Reported == {offsets[i] : i \in 1..Len(offsets)}

TimesReported(o) == Cardinality({i \in 1..Len(offsets) : offsets[i] = o})

Ascending(seq) == \A i, j \in 1..Len(seq) : i < j => seq[i] < seq[j]

\* offset o has its first byte in window k and its last byte in window k+1
Straddles(o, k) ==
    /\ WindowStart(k) <= o
    /\ o < WindowStart(k + 1)
    /\ WindowStart(k + 1) <= o + 3
    /\ o + 3 <= WindowEnd(k + 1)

\* the 4 bytes at offset o lie in window k
Inside(o, k) == WindowStart(k) <= o /\ o + 3 <= WindowEnd(k)

-----------------------------------------------------------------------------
(* Scanner properties, checked under SpecScan *)

\* C1: when the whole range [0, total_size) is readable, the scan returns
\* exactly the relative offsets in [0, total_size-4] at which the needle
\* occurs, in ascending order, for every chunk_size and total_size.
C1_ScannerCompleteness ==
    (pc = "scanned" /\ Readable(mem, base_address, total_size)) =>
        /\ Ascending(offsets)
        /\ Reported = Occurrences

\* a finished scan of fully readable memory, total_size no multiple of
\* chunk_size, with an occurrence that crosses a window boundary
C1_Witness ==
    /\ pc = "scanned"
    /\ Readable(mem, base_address, total_size)
    /\ total_size % chunk_size # 0
    /\ Len(offsets) >= 2
    /\ \E o \in Occurrences : \E k \in 0..(NumWindows - 2) : Straddles(o, k)

\* C2: a needle that has 1, 2 or 3 bytes at the end of a readable window and
\* the rest at the start of the next, readable window is reported exactly
\* once, at its true relative offset.
C2_BoundaryMatch ==
    pc = "scanned" =>
        \A o \in Occurrences : \A k \in 0..(NumWindows - 2) :
            (Straddles(o, k) /\ WindowReadable(k) /\ WindowReadable(k + 1))
                => TimesReported(o) = 1

\* a finished scan in which such a needle follows an unreadable window
C2_Witness ==
    /\ pc = "scanned"
    /\ \E o \in Occurrences : \E k \in 1..(NumWindows - 2) :
          /\ Straddles(o, k)
          /\ WindowReadable(k)
          /\ WindowReadable(k + 1)
          /\ ~WindowReadable(k - 1)
          /\ WindowStart(k + 1) - o = 1

\* C3: a failed read never aborts the scan: every window is read, in order,
\* whatever failed before it; nothing lying inside an unreadable window is
\* reported; every occurrence inside a later readable window is reported.
C3_SkipUnreadable ==
    /\ pc \in {"scan", "scanned"}
    /\ err = ""
    /\ (pc = "scan" /\ chunk_start < total_size) => ENABLED NextScan
    /\ pc = "scanned" =>
          /\ Len(calls) = NumWindows
          /\ \A k \in 0..(NumWindows - 1) :
                /\ calls[k + 1].op = "read_bytes"
                /\ calls[k + 1].addr = base_address + WindowStart(k)
                /\ calls[k + 1].ok = WindowReadable(k)
          /\ \A k \in 0..(NumWindows - 1) : \A o \in 0..(total_size - 4) :
                (Inside(o, k) /\ ~WindowReadable(k)) => o \notin Reported
          /\ \A k \in 0..(NumWindows - 1) : \A o \in Occurrences :
                (Inside(o, k) /\ WindowReadable(k)) => o \in Reported

\* a finished scan that skipped a window and found the needle inside a later one
C3_Witness ==
    /\ pc = "scanned"
    /\ \E i, k \in 0..(NumWindows - 1) : \E o \in Occurrences :
          /\ i < k
          /\ ~WindowReadable(i)
          /\ WindowReadable(k)
          /\ Inside(o, k)
          /\ o \in Reported

\* C4: after the read of a window failed the overlap buffer is empty while
\* the next window is searched, and no reported offset lies in an unreadable
\* window.
C4_OverlapResetAfterFailedRead ==
    /\ (pc = "scan" /\ calls # <<>> /\ ~calls[Len(calls)].ok)
          => previous_chunk_tail = <<>>
    /\ \A o \in Reported : \A k \in 0..(NumWindows - 1) :
          (WindowStart(k) <= o /\ o <= WindowEnd(k)) => WindowReadable(k)

-----------------------------------------------------------------------------
(* Patcher and orchestration properties, checked under Spec *)

Writes == {k \in 1..Len(calls) : calls[k].op = "write_uint"}

CandidateAddresses == {dll_base + offsets[i] : i \in 1..Len(offsets)}

NoModuleMatches ==
    \A i \in 1..Len(modules) : ~endswith(modules[i].filename, WeChatWinDll)

\* C5: the only changes of process memory are writes of target_value at a
\* candidate address whose value, read just before in the same iteration,
\* equals default_value; an address that reads target_value is left alone.
C5_WritePolicy ==
    [][ /\ (mem' # mem =>
              /\ pc = "patch"
              /\ idx \in 1..Len(offsets)
              /\ Readable(mem, addr, 4)
              /\ read_uint(mem, addr) = default_hex
              /\ read_uint(mem, addr) # target_hex
              /\ mem' = write_uint(mem, addr, target_hex)
              /\ calls' = calls \o
                    <<Call("read_uint", addr, default_hex, TRUE),
                      Call("write_uint", addr, target_hex, TRUE)>>)
        /\ (Len(calls') > Len(calls) /\ calls'[Len(calls')].op = "write_uint"
              => mem' # mem)
        /\ ((/\ pc = "patch"
             /\ idx \in 1..Len(offsets)
             /\ Readable(mem, addr, 4)
             /\ read_uint(mem, addr) = target_hex)
              => /\ mem' = mem
                 /\ calls' = Append(calls, Call("read_uint", addr, target_hex, TRUE))
                 /\ idx' = idx + 1)
      ]_vars

\* a run that has both patched an address and skipped one holding the target
C5_Witness ==
    /\ pc \in {"patch", "done"}
    /\ Writes # {}
    /\ \E k \in 1..Len(calls) :
          /\ calls[k].op = "read_uint"
          /\ calls[k].ok
          /\ calls[k].arg = target_hex
    /\ default_hex # target_hex

\* C6: when a candidate address holds neither value the run fails with the
\* version-mismatch error at once: the failing read is the last call, so no
\* later candidate is read or written, and every address written before
\* still holds target_value.  Stated for the runs that found the module.
C6_MismatchAbortNoRollback ==
    (pc = "error" /\ err = "VersionMismatch" /\ ~NoModuleMatches) =>
        /\ idx \in 1..Len(offsets)
        /\ calls # <<>>
        /\ calls[Len(calls)].op = "read_uint"
        /\ calls[Len(calls)].addr = addr
        /\ calls[Len(calls)].arg \notin {target_hex, default_hex}
        /\ \A k \in Writes :
              /\ \E i \in 1..(idx - 1) : calls[k].addr = dll_base + offsets[i]
              /\ read_uint(mem, calls[k].addr) = target_hex

\* C7: an empty scan result ends the run with the offsets-not-found error
\* before the patch loop: no read_uint or write_uint is ever called and the
\* run never ends as a successful patch.
C7_EmptyScanFatal ==
    /\ (offsets = <<>> /\ pc \in {"patch", "done", "error"}) =>
          /\ pc = "error"
          /\ err = "OffsetsNotFound"
          /\ \A k \in 1..Len(calls) : calls[k].op = "read_bytes"
    /\ pc \in {"patch", "done"} => offsets # <<>>
    /\ err = "OffsetsNotFound" => (pc = "error" /\ offsets = <<>>)

\* a run of a found module whose scan read a window and found nothing
C7_Witness ==
    /\ pc = "error"
    /\ err = "OffsetsNotFound"
    /\ ~NoModuleMatches
    /\ \E k \in 1..Len(calls) : calls[k].ok

\* C8: when no module's path ends with WeChatWin.dll the run fails with
\* ModuleNotFound and touches no memory; when one does, the base address of
\* the first such module in enumeration order is used.
C8_ModuleLookup ==
    pc # "locate" =>
        /\ NoModuleMatches =>
              /\ pc = "error"
              /\ err = "ModuleNotFound"
              /\ calls = <<>>
        /\ ~NoModuleMatches =>
              \E i \in 1..Len(modules) :
                  /\ endswith(modules[i].filename, WeChatWinDll)
                  /\ \A j \in 1..(i - 1) : ~endswith(modules[j].filename, WeChatWinDll)
                  /\ dll_base = modules[i].lpBaseOfDll

\* position of the run in the order lookup, scan, patch
Rank(p) ==
    CASE p = "locate"  -> 0
      [] p = "located" -> 1
      [] p = "scan"    -> 2
      [] p = "scanned" -> 3
      [] p = "patch"   -> 4
      [] p = "done"    -> 5
      [] p = "error"   -> 6

ReadUints == {k \in 1..Len(calls) : calls[k].op = "read_uint"}

DefaultReads ==
    {k \in ReadUints :
        calls[k].ok /\ calls[k].arg = default_hex /\ calls[k].arg # target_hex}

TargetReads ==
    {k \in ReadUints : calls[k].ok /\ calls[k].arg = target_hex}

C10_WitnessAllPatched ==
    /\ pc = "done"
    /\ ReadUints # {}
    /\ ReadUints = TargetReads

-----------------------------------------------------------------------------
(* Launch polling properties, checked under SpecLaunch *)

\* C11: the polling is bounded: an iteration that starts with the retry count
\* at or below 0 ends the loop and the program exits with failure, so the loop
\* never goes on with an exhausted count.
C11_BoundedLaunchPolling ==
    [][(launch_pc = "loop" /\ num <= 0) => launch_pc' = "exit"]_vars

-----------------------------------------------------------------------------
(* Codec properties, checked under SpecCodec *)

\* the digit string the format prescribes for a.b.c.d: 6, a in one hex digit,
\* then b, c and d in two hex digits each
ExpectedDigits(a, b, c, d) ==
    <<"6", HexChars[a + 1],
      HexChars[(b \div 16) + 1], HexChars[(b % 16) + 1],
      HexChars[(c \div 16) + 1], HexChars[(c % 16) + 1],
      HexChars[(d \div 16) + 1], HexChars[(d % 16) + 1]>>

\* C12: for a version a.b.c.d with a <= 15 and b, c, d <= 255 every call of
\* convert_version_to_hex returns the 8 hex digits 6, a, bb, cc, dd; the
\* number they spell fits in 4 bytes, and repeated calls return the same.
C12_CodecFormat ==
    \A a \in {x \in MajorValues : x <= 15} :
      \A b, c, d \in {x \in PartValues : x <= 255} :
        current = VersionString(a, b, c, d) =>
          \A k \in 1..Len(encoded) :
            /\ encoded[k] = Returned(ExpectedDigits(a, b, c, d))
            /\ Len(encoded[k].value[1]) = 8
            /\ LET n == ParseNumeral(HexChars, encoded[k].value[1])
               IN  from_bytes(to_bytes(n)) = n
            /\ encoded[k] = encoded[1]

C12_Witness ==
    /\ current = VersionString(3, 9, 10, 27)
    /\ Len(encoded) = MaxCalls
    /\ encoded[MaxCalls] = Returned(<<"6", "3", "0", "9", "0", "a", "1", "b">>)

\* C13: encoding a version that does not have exactly 4 dot-separated
\* components, or that has a component which is not a number, fails with an
\* error and yields no encoded value (a version that is passed to
\* convert_version_to_hex at all, that is a non-empty one).
C13_CodecValidation ==
    (/\ current # <<>>
     /\ \/ Len(split(current, ".")) # 4
        \/ \E i \in 1..Len(split(current, ".")) :
            ~IsNumeral(DecChars, split(current, ".")[i]))
    => \A k \in 1..Len(encoded) :
          /\ encoded[k].raised # ""
          /\ encoded[k].value = <<>>

-----------------------------------------------------------------------------
(* Patcher under a concurrent writer, checked under SpecRace *)

\* C14: between the classifying read that saw default_hex and the write there
\* is a gap: once the read is done the write is always possible and the
\* patcher's next step writes target_hex to the cell whatever the cell holds
\* by then, also when the target process has changed it in between.
C14_WriteAfterStaleRead ==
    /\ [](pc = "patch_write" =>
            /\ calls[Len(calls)] = Call("read_uint", addr, default_hex, TRUE)
            /\ ENABLED PatchWriteAfterRead)
    /\ [][(pc = "patch_write" /\ pc' # "patch_write") =>
            /\ pc' = "patch"
            /\ mem' = write_uint(mem, addr, target_hex)
            /\ calls' = Append(calls, Call("write_uint", addr, target_hex, TRUE))]_vars

\* the target process changed a byte of the cell after the read, and the
\* write went over the changed cell
C14_Witness ==
    \E k \in 1..(Len(calls) - 1) :
      \E i \in 1..Len(mutations) :
        /\ calls[k].op = "read_uint"
        /\ calls[k].arg = default_hex
        /\ calls[k + 1] = Call("write_uint", calls[k].addr, target_hex, TRUE)
        /\ mutations[i].after = k
        /\ mutations[i].address \in calls[k].addr..(calls[k].addr + 3)
        /\ mutations[i].value
             # to_bytes(default_hex)[mutations[i].address - calls[k].addr + 1]
        /\ read_uint(mem, calls[k].addr) = target_hex

-----------------------------------------------------------------------------
(* Further scanner properties, checked under SpecScan *)

\* C15: whatever windows are unreadable and whatever the chunk size (also
\* below 3), the offsets found so far are strictly ascending, hence without
\* duplicate, and each lies in 0 .. total_size - 4.
C15_ScanOrdering ==
    /\ \A i, j \in 1..Len(offsets) : i < j => offsets[i] < offsets[j]
    /\ \A i \in 1..Len(offsets) :
          /\ offsets[i] >= 0
          /\ offsets[i] <= total_size - 4

\* a finished scan with a chunk size below 3, an unreadable window and
\* several offsets
C15_Witness ==
    /\ pc = "scanned"
    /\ chunk_size < 3
    /\ \E k \in 0..(NumWindows - 1) : ~WindowReadable(k)
    /\ Len(offsets) >= 2

-----------------------------------------------------------------------------
(* The documented codec example, checked under SpecCodec *)

\* C16: convert_version_to_hex('3.9.10.27') returns '63090c33', the example
\* of the function's docstring.
C16_DocumentedExample ==
    current = <<"3", ".", "9", ".", "1", "0", ".", "2", "7">> =>
        \A k \in 1..Len(encoded) :
            encoded[k] = Returned(<<"6", "3", "0", "9", "0", "c", "3", "3">>)

-----------------------------------------------------------------------------
(* Patch postcondition, checked under Spec *)

\* C17: when the module was found, every scan window is readable and only the
\* patcher writes, then once the patch loop has finished without raising,
\* every offset the scan returned holds target_hex.
C17_PatchPostcondition ==
    (/\ pc = "done"
     /\ ~NoModuleMatches
     /\ Readable(mem, dll_base, total_size))
    => \A i \in 1..Len(offsets) :
          /\ Readable(mem, dll_base + offsets[i], 4)
          /\ read_uint(mem, dll_base + offsets[i]) = target_hex

\* C18: the scan attempts exactly ceil(total_size / chunk_size) reads, one per
\* window in ascending order, window k at base_address + k * chunk_size with
\* length min(chunk_size, total_size - k * chunk_size), failed reads
\* included; the windows are contiguous, do not overlap, cover exactly
\* [0, total_size) and none extends past base_address + total_size; every
\* step of the loop makes the next read or returns, so the scan terminates.
C18_WindowPartition ==
    /\ [](/\ Len(calls) <= NumWindows
          /\ \A k \in 1..Len(calls) :
                /\ calls[k].op = "read_bytes"
                /\ calls[k].addr = base_address + (k - 1) * chunk_size
                /\ calls[k].arg = WindowLen(k - 1)
                /\ calls[k].arg >= 1
                /\ calls[k].addr + calls[k].arg <= base_address + total_size
                /\ k > 1 => calls[k].addr = calls[k - 1].addr + calls[k - 1].arg
          /\ pc = "scan" => /\ chunk_start = Len(calls) * chunk_size
                            /\ ENABLED NextScan
          /\ pc = "scanned" =>
                /\ Len(calls) = NumWindows
                /\ calls[1].addr = base_address
                /\ calls[Len(calls)].addr + calls[Len(calls)].arg
                     = base_address + total_size)
    /\ [][pc = "scan" => \/ Len(calls') = Len(calls) + 1
                         \/ pc' = "scanned" /\ calls' = calls]_vars

\* a finished scan of several windows, the last one shorter than chunk_size,
\* with a failed read before the last window
C18_Witness ==
    /\ pc = "scanned"
    /\ NumWindows >= 3
    /\ total_size % chunk_size # 0
    /\ \E k \in 1..(Len(calls) - 1) : ~calls[k].ok
    /\ calls[Len(calls)].ok

-----------------------------------------------------------------------------
(* Version update properties, checked under SpecUpdate *)

\* the components of a dotted version as numbers
Components(v) ==
    [i \in 1..Len(split(v, ".")) |-> ParseNumeral(DecChars, split(v, ".")[i])]

RECURSIVE NumericNewer(_, _)
\* a is strictly newer than b, comparing component by component as numbers
NumericNewer(a, b) ==
    IF Len(a) = 0 \/ Len(b) = 0 THEN Len(a) > Len(b)
    ELSE IF a[1] # b[1] THEN a[1] > b[1]
    ELSE NumericNewer(Tail(a), Tail(b))

\* C19: when the stored and the remote version differ, the stored version is
\* replaced by the remote one exactly when the remote one is strictly newer
\* under component-wise numeric comparison; otherwise it is kept.
C19_RemoteVersionAdoption ==
    (/\ update_pc \in {"returned", "script_done"}
     /\ remote_version # <<>>
     /\ remote_version # local_version)
    => /\ result = remote_version
            <=> NumericNewer(Components(remote_version), Components(local_version))
       /\ result \in {remote_version, local_version}

-----------------------------------------------------------------------------
(* commit_and_push properties, checked under SpecGit *)

\* the commit step failed with an error
CommitError ==
    \/ "get_repo" \in git.failing
    \/ "add" \in git.failing
    \/ git.dirty /\ "commit" \in git.failing

\* a new commit was made
CommitMade == ~CommitError /\ git.dirty

\* there were no changes to commit
NoChanges == ~CommitError /\ ~git.dirty

PushAttempted == \E i \in 1..Len(git_ops) : git_ops[i] \in {"checkout", "push"}

PushSucceeded == PushAttempted /\ git.failing \cap {"checkout", "push"} = {}

\* C20: push is attempted only after commit reported a new commit;
\* commit_and_push returns True exactly when a commit was made and the push
\* succeeded, or there was nothing to commit; when the commit step fails with
\* an error it returns False and no push is attempted.
C20_CommitAndPushOutcome ==
    git_pc = "returned" =>
        /\ PushAttempted => (git_ret.commit = <<TRUE>> /\ CommitMade)
        /\ git_ret.commit_and_push = <<TRUE>>
              <=> ((CommitMade /\ PushSucceeded) \/ NoChanges)
        /\ CommitError => (git_ret.commit_and_push = <<FALSE>> /\ ~PushAttempted)

====
